---- MODULE Spec2Model ----
(***************************************************************************)
(* Model of src/health_analysis_tw.py: the POST /health_analyze handler,   *)
(* the metrics text parser, the age computation, the suggestions prefix    *)
(* stripping and the mail dispatcher.                                      *)
(*                                                                         *)
(* Text is a sequence of one-character strings.  The CJK characters of the *)
(* source are written by their pinyin ("dang","ran","ke","yi", ...) and    *)
(* the full-width exclamation mark U+FF01 as "FW!"; each is one character. *)
(***************************************************************************)
EXTENDS Integers, Sequences, FiniteSets, TLC

VARIABLES
    pc,             \* position of the handler in health_analyze
    lang,           \* the request's "lang" field as received (a JSON value)
    dob,            \* <<dob_year, dob_month, dob_day>> as received
    today,          \* datetime.today() as <<year, month, day>>
    age,            \* compute_age(dob)
    metrics_reply,  \* outcome of the completion call of generate_metrics_with_ai
    metrics,        \* the list generate_metrics_with_ai returned
    summary,        \* what get_openai_response returned for the summary
    creative_reply, \* what get_openai_response returned for the suggestions
    creative,       \* creative after re.sub
    SMTP_PASSWORD,  \* os.getenv("SMTP_PASSWORD"), read once at start
    events,         \* the external steps of this request, in order
    response        \* the HTTP response, [status, body]

vars == <<pc, lang, dob, today, age, metrics_reply, metrics, summary,
          creative_reply, creative, SMTP_PASSWORD, events, response>>

-----------------------------------------------------------------------------
(* Bounds of the model.                                                    *)

\* number of lines of an AI metrics reply
MaxLines == 3
\* length of a run of whitespace around the suggestions opening phrase
MaxWs == 2

-----------------------------------------------------------------------------
(* Python str operations on sequences of characters.                       *)

\* str.isspace for one character
IsSpace(c) == c \in {" ", "\n", "\t", "\r"}

RECURSIVE LStrip(_)
LStrip(s) ==
    IF s # <<>> /\ IsSpace(Head(s)) THEN LStrip(Tail(s)) ELSE s

RECURSIVE RStrip(_)
RStrip(s) ==
    IF s # <<>> /\ IsSpace(s[Len(s)]) THEN RStrip(SubSeq(s, 1, Len(s) - 1)) ELSE s

\* str.strip()
Strip(s) == LStrip(RStrip(s))

\* str.startswith(p)
StartsWith(s, p) == Len(s) >= Len(p) /\ SubSeq(s, 1, Len(p)) = p

\* c in s
Contains(s, c) == \E i \in 1..Len(s) : s[i] = c

\* index of the first occurrence of character c in s, 0 when there is none
IndexOf(s, c) ==
    IF Contains(s, c) THEN CHOOSE i \in 1..Len(s) : s[i] = c /\ \A j \in 1..(i - 1) : s[j] # c
    ELSE 0

\* str.split(sep) for a one-character separator: always at least one piece
RECURSIVE Split(_, _)
Split(s, sep) ==
    LET i == IndexOf(s, sep) IN
    IF i = 0 THEN <<s>>
    ELSE <<SubSeq(s, 1, i - 1)>> \o Split(SubSeq(s, i + 1, Len(s)), sep)

\* str.split(sep, 1) on a string that contains sep: <<before, after>>
SplitFirst(s, sep) ==
    LET i == IndexOf(s, sep) IN <<SubSeq(s, 1, i - 1), SubSeq(s, i + 1, Len(s))>>

\* str.replace(old, ""): every non-overlapping occurrence, left to right
RECURSIVE Remove(_, _)
Remove(s, old) ==
    IF s = <<>> THEN <<>>
    ELSE IF StartsWith(s, old) THEN Remove(SubSeq(s, Len(old) + 1, Len(s)), old)
    ELSE <<Head(s)>> \o Remove(Tail(s), old)

\* str.join: the lines with sep between them
RECURSIVE Join(_, _)
Join(ls, sep) ==
    IF ls = <<>> THEN <<>>
    ELSE IF Len(ls) = 1 THEN ls[1]
    ELSE ls[1] \o <<sep>> \o Join(Tail(ls), sep)

\* value of a decimal digit
DigitVal(c) ==
    CASE c = "0" -> 0 [] c = "1" -> 1 [] c = "2" -> 2 [] c = "3" -> 3 [] c = "4" -> 4
      [] c = "5" -> 5 [] c = "6" -> 6 [] c = "7" -> 7 [] c = "8" -> 8 [] c = "9" -> 9

IsDigit(c) == c \in {"0", "1", "2", "3", "4", "5", "6", "7", "8", "9"}

\* the literal int() accepts once whitespace and sign are off: digits, with
\* single underscores between digits
IsDigits(s) ==
    /\ s # <<>>
    /\ \A i \in 1..Len(s) : IsDigit(s[i]) \/ s[i] = "_"
    /\ IsDigit(s[1]) /\ IsDigit(s[Len(s)])
    /\ \A i \in 1..(Len(s) - 1) : ~(s[i] = "_" /\ s[i + 1] = "_")

RECURSIVE DigitsVal(_)
DigitsVal(s) ==
    IF s = <<>> THEN 0
    ELSE IF s[Len(s)] = "_" THEN DigitsVal(SubSeq(s, 1, Len(s) - 1))
    ELSE DigitsVal(SubSeq(s, 1, Len(s) - 1)) * 10 + DigitVal(s[Len(s)])

Unsigned(s) == IF s # <<>> /\ Head(s) \in {"+", "-"} THEN Tail(s) ELSE s

\* int(s) does not raise ValueError
IsInt(s) == IsDigits(Unsigned(Strip(s)))

\* int(s)
ToInt(s) ==
    LET t == Strip(s) IN
    IF t # <<>> /\ Head(t) = "-" THEN 0 - DigitsVal(Tail(t)) ELSE DigitsVal(Unsigned(t))

-----------------------------------------------------------------------------
(* Outcomes of a chat completion call: the call raises, or returns a       *)
(* message whose content is a str, or a message whose content is None      *)
(* (the client library types message.content as Optional[str]).            *)

Raised == [kind |-> "raised", chars |-> <<>>]
NoneContent == [kind |-> "none", chars |-> <<>>]
Text(s) == [kind |-> "text", chars |-> s]
\* before the call
NotCalled == [kind |-> "notcalled", chars |-> <<>>]

-----------------------------------------------------------------------------
(* generate_metrics_with_ai                                                *)

HeadingMarker == <<"#", "#", "#">>

DefaultMetrics ==
    << [title  |-> <<"yu", "she", "zhi", "biao">>,
        labels |-> << <<"zhi", "biao", "A">>, <<"zhi", "biao", "B">> >>,
        values |-> <<50, 75>>] >>

\* metrics, current_title, labels, values = [], "", [], []
ScanInit == [metrics |-> <<>>, current_title |-> <<>>, labels |-> <<>>, values |-> <<>>]

\* the dict appended to metrics
Group(st) == [title |-> st.current_title, labels |-> st.labels, values |-> st.values]

\* if current_title: metrics.append({...})
Flush(st) ==
    IF st.current_title # <<>> THEN Append(st.metrics, Group(st)) ELSE st.metrics

\* mutant: the new group keeps the labels and values of the previous one
HeadingLine_KeepsLists(st, line) ==
    [metrics       |-> Flush(st),
     current_title |-> Strip(Remove(line, HeadingMarker)),
     labels        |-> st.labels,
     values        |-> st.values]

\* the branch of a line that starts with "###"
HeadingLine(st, line) ==
    [metrics       |-> Flush(st),
     current_title |-> Strip(Remove(line, HeadingMarker)),
     labels        |-> <<>>,
     values        |-> <<>>]

\* the branch of a line that contains ":".  labels.append runs before int(),
\* so when int() raises ValueError the label is already in the list and the
\* except clause only skips the values.append.
PairLine(st, line) ==
    LET parts  == SplitFirst(line, ":")
        label  == Strip(parts[1])
        val    == Remove(Strip(parts[2]), <<"%">>)
        added  == [st EXCEPT !.labels = Append(@, label)]
    IN  IF IsInt(val) THEN [added EXCEPT !.values = Append(@, ToInt(val))] ELSE added

\* one iteration of "for line in lines"
ScanLine(st, line) ==
    IF StartsWith(line, HeadingMarker) THEN HeadingLine(st, line)
    ELSE IF Contains(line, ":") THEN PairLine(st, line)
    ELSE st

RECURSIVE ScanLines(_, _)
ScanLines(st, lines) ==
    IF lines = <<>> THEN st ELSE ScanLines(ScanLine(st, Head(lines)), Tail(lines))

\* res.choices[0].message.content.strip().split("\n")
ReplyLines(content) == Split(Strip(content), "\n")

\* the list built by the loop and the flush after it
ParsedMetrics(content) == Flush(ScanLines(ScanInit, ReplyLines(content)))

\* mutant: return metrics, without the default
OrDefault_NoDefault(ms) == ms

\* return metrics or [default]
OrDefault(ms) == IF ms # <<>> THEN ms ELSE DefaultMetrics

\* the whole function on the outcome of its completion call: a raised call and
\* a None content (None.strip() raises AttributeError) both end in the
\* except clause
generate_metrics_with_ai(outcome) ==
    IF outcome.kind = "text" THEN OrDefault(ParsedMetrics(outcome.chars))
    ELSE DefaultMetrics

-----------------------------------------------------------------------------
(* compute_age                                                             *)

\* a JSON value of the request body: a number, or None for a missing key
JNum(n) == [kind |-> "number", n |-> n]
JNone == [kind |-> "none", n |-> 0]

RECURSIVE NatStr(_)
NatStr(n) ==
    LET d == <<"0", "1", "2", "3", "4", "5", "6", "7", "8", "9">>[(n % 10) + 1] IN
    IF n < 10 THEN <<d>> ELSE NatStr(n \div 10) \o <<d>>

\* str(v), and the text an f-string gives v
PyStr(v) == IF v.kind = "none" THEN <<"N", "o", "n", "e">> ELSE NatStr(v.n)

\* str.zfill(2)
ZFill2(s) == IF Len(s) < 2 THEN <<"0">> \o s ELSE s

\* f"{dob_year}-{str(dob_month).zfill(2)}-{str(dob_day).zfill(2)}"
DobString(d) == PyStr(d[1]) \o <<"-">> \o ZFill2(PyStr(d[2])) \o <<"-">> \o ZFill2(PyStr(d[3]))

IsLeap(y) == y % 4 = 0 /\ (y % 100 # 0 \/ y % 400 = 0)

DaysIn(y, m) ==
    IF m = 2 THEN (IF IsLeap(y) THEN 29 ELSE 28)
    ELSE IF m \in {4, 6, 9, 11} THEN 30 ELSE 31

AllDigits(s) == s # <<>> /\ \A i \in 1..Len(s) : IsDigit(s[i])

\* dateutil's parser.parse on the "Y-MM-DD" text the handler composes, for a
\* year of more than two digits (read year first): the datetime, or ok = FALSE
\* where parse raises (a field that is not a number, a month or day out of
\* range)
ParseDate(s) ==
    LET tokens == Split(s, "-")
        bad    == [ok |-> FALSE, year |-> 0, month |-> 0, day |-> 0]
    IN  IF Len(tokens) # 3 \/ \E i \in 1..Len(tokens) : ~AllDigits(tokens[i]) THEN bad
        ELSE LET y == DigitsVal(tokens[1])
                 m == DigitsVal(tokens[2])
                 d == DigitsVal(tokens[3])
             IN  IF y \in 1..9999 /\ m \in 1..12 /\ d \in 1..DaysIn(y, m)
                 THEN [ok |-> TRUE, year |-> y, month |-> m, day |-> d]
                 ELSE bad

\* mutant: only the months are compared
TupleLess_MonthOnly(a, b) == a[1] < b[1]

\* Python's (a1, a2) < (b1, b2) on pairs of ints
TupleLess(a, b) == a[1] < b[1] \/ (a[1] = b[1] /\ a[2] < b[2])

\* int - bool: True counts 1
BoolInt(b) == IF b THEN 1 ELSE 0

\* compute_age(dob) when datetime.today() is t; the bare except returns 0
compute_age(dobstr, t) ==
    LET dt == ParseDate(dobstr) IN
    IF dt.ok THEN t[1] - dt.year - BoolInt(TupleLess(<<t[2], t[3]>>, <<dt.month, dt.day>>))
    ELSE 0

-----------------------------------------------------------------------------
(* get_openai_response and the re.sub on the suggestions                   *)

\* the fixed fallback message
FallbackText == <<"!", "wu", "fa", "sheng", "cheng", "hui", "ying", ".">>

\* what get_openai_response returns: the content (a str or None), or the
\* fallback message when the call raises
get_openai_response(outcome) ==
    IF outcome.kind = "raised" THEN Text(FallbackText) ELSE outcome

\* the opening phrase of the pattern
OpeningPhrase == <<"dang", "ran", "ke", "yi">>

\* mutant: the pattern without its leading \s*
StripOpening_NoLeadingSpace(s) ==
    LET n == Len(OpeningPhrase) IN
    IF StartsWith(s, OpeningPhrase) /\ Len(s) > n /\ s[n + 1] \in {"FW!", "!"}
    THEN LStrip(SubSeq(s, n + 2, Len(s)))
    ELSE s

\* re.sub(r"^\s*<phrase>[FW!|!]\s*", "", s): the pattern is anchored at the
\* start of the text; a match takes the leading whitespace, the phrase, one
\* exclamation mark and the whitespace after it
StripOpening(s) ==
    LET rest == LStrip(s)
        n    == Len(OpeningPhrase)
    IN  IF /\ StartsWith(rest, OpeningPhrase)
           /\ Len(rest) > n
           /\ rest[n + 1] \in {"FW!", "!"}
        THEN LStrip(SubSeq(rest, n + 2, Len(rest)))
        ELSE s

-----------------------------------------------------------------------------
(* send_email_report                                                       *)

PyNone == "<None>"
SMTP_SERVER == "smtp.gmail.com"
SMTP_USERNAME == "kata.chatbot@gmail.com"
SMTP_PORT == 587

\* truth value of a str or None
Truthy(v) == v # PyNone /\ v # ""

\* mutant: the password is left out of the test
SmtpConfigured_WithoutPassword(server, username, password) ==
    Truthy(server) /\ Truthy(username)

\* all([SMTP_SERVER, SMTP_USERNAME, SMTP_PASSWORD])
SmtpConfigured(server, username, password) ==
    Truthy(server) /\ Truthy(username) /\ Truthy(password)

\* how far an SMTP session gets before it raises, or that it completes
MailOutcomes == {"connect_raises", "starttls_raises", "login_raises", "sendmail_raises", "sent"}

\* the transport steps of the with-block that are attempted under an outcome
SmtpSteps(outcome) ==
    CASE outcome = "connect_raises"  -> <<"smtp_connect">>
      [] outcome = "starttls_raises" -> <<"smtp_connect", "smtp_starttls">>
      [] outcome = "login_raises"    -> <<"smtp_connect", "smtp_starttls", "smtp_login">>
      [] OTHER -> <<"smtp_connect", "smtp_starttls", "smtp_login", "smtp_sendmail">>

\* the transport steps send_email_report performs; it returns normally in
\* every case (early return, or the except clause)
send_email_report(server, username, password, outcome) ==
    IF ~SmtpConfigured(server, username, password) THEN <<>> ELSE SmtpSteps(outcome)

-----------------------------------------------------------------------------
(* The request handler health_analyze                                      *)

\* JSON values of the "lang" field
JStr(s) == [kind |-> "string", chars |-> s]
JAbsent == [kind |-> "absent", chars |-> <<>>]
JNull == [kind |-> "null", chars |-> <<>>]
JNumber == [kind |-> "number", chars |-> <<>>]

\* str.lower() on the letters of the model's alphabet
LowerChar(c) ==
    CASE c = "T" -> "t" [] c = "W" -> "w" [] c = "E" -> "e" [] c = "N" -> "n" [] OTHER -> c

Lower(s) == [i \in 1..Len(s) |-> LowerChar(s[i])]

\* the single supported locale
SupportedLang == <<"t", "w">>

\* mutant: the value is compared as received, without strip() and lower()
LocaleCheck_AsReceived(l) ==
    LET v == IF l.kind = "absent" THEN JStr(SupportedLang) ELSE l IN
    IF v.kind # "string" THEN "raises"
    ELSE IF v.chars # SupportedLang THEN "rejected"
    ELSE "accepted"

\* data.get("lang", "tw").strip().lower() and the test lang != "tw":
\* "raises" when the value has no strip (None, a number)
LocaleCheck(l) ==
    LET v == IF l.kind = "absent" THEN JStr(SupportedLang) ELSE l IN
    IF v.kind # "string" THEN "raises"
    ELSE IF Lower(Strip(v.chars)) # SupportedLang THEN "rejected"
    ELSE "accepted"

NoResponse == [status |-> 0, body |-> "none"]
UnsupportedLocale == [status |-> 400, body |-> "error: unsupported locale"]
UnexpectedError == [status |-> 500, body |-> "error: unexpected server error"]
Report == [status |-> 200, body |-> "metrics, html_result, footer, report_title"]

\* lines 220-235: read the body, check the locale, compose dob, compute age
Receive(Langs, Dobs, Todays) ==
    /\ pc = "idle"
    /\ \E l \in Langs, d \in Dobs, t \in Todays :
        /\ lang' = l
        /\ dob' = d
        /\ today' = t
        /\ LET chk == LocaleCheck(l) IN
            CASE chk = "raises" ->
                    /\ response' = UnexpectedError
                    /\ events' = Append(events, "response")
                    /\ pc' = "done"
                    /\ age' = age
              [] chk = "rejected" ->
                    /\ response' = UnsupportedLocale
                    /\ events' = Append(events, "response")
                    /\ pc' = "done"
                    /\ age' = age
              [] OTHER ->
                    /\ response' = response
                    /\ events' = events
                    /\ pc' = "metrics"
                    /\ age' = compute_age(DobString(d), t)
    /\ UNCHANGED <<metrics_reply, metrics, summary, creative_reply, creative, SMTP_PASSWORD>>

\* lines 238-246: metrics = generate_metrics_with_ai(chart_prompt)
MetricsCall(Outcomes) ==
    /\ pc = "metrics"
    /\ \E o \in Outcomes :
        /\ metrics_reply' = o
        /\ metrics' = generate_metrics_with_ai(o)
    /\ events' = Append(events, "metrics_call")
    /\ pc' = "summary"
    /\ UNCHANGED <<lang, dob, today, age, summary, creative_reply, creative,
                   SMTP_PASSWORD, response>>

\* lines 248-250: summary = get_openai_response(summary_prompt)
SummaryCall(Outcomes) ==
    /\ pc = "summary"
    /\ \E o \in Outcomes : summary' = get_openai_response(o)
    /\ events' = Append(events, "summary_call")
    /\ pc' = "suggestions"
    /\ UNCHANGED <<lang, dob, today, age, metrics_reply, metrics, creative_reply, creative,
                   SMTP_PASSWORD, response>>

\* lines 252-282 and 306-309: the suggestions call, re.sub on its reply and the
\* email body.  re.sub(pattern, "", None) raises TypeError (line 256) and
\* None.strip() raises AttributeError (line 269); both land in the handler's
\* except clause, which answers 500.
SuggestionsCall(Outcomes) ==
    /\ pc = "suggestions"
    /\ \E o \in Outcomes :
        LET r == get_openai_response(o) IN
        /\ creative_reply' = r
        /\ IF r.kind = "none"
           THEN /\ creative' = creative
                /\ response' = UnexpectedError
                /\ events' = events \o <<"suggestions_call", "response">>
                /\ pc' = "done"
           ELSE /\ creative' = Text(StripOpening(r.chars))
                /\ IF summary.kind = "none"
                   THEN /\ response' = UnexpectedError
                        /\ events' = events \o <<"suggestions_call", "response">>
                        /\ pc' = "done"
                   ELSE /\ response' = response
                        /\ events' = Append(events, "suggestions_call")
                        /\ pc' = "mail"
    /\ UNCHANGED <<lang, dob, today, age, metrics_reply, metrics, summary, SMTP_PASSWORD>>

\* line 283: send_email_report(SMTP_USERNAME, email_subject, email_html_body)
MailDispatch ==
    /\ pc = "mail"
    /\ \E o \in MailOutcomes :
        events' = events \o <<"mail_dispatch">>
                         \o send_email_report(SMTP_SERVER, SMTP_USERNAME, SMTP_PASSWORD, o)
                         \o <<"mail_return">>
    /\ pc' = "respond"
    /\ UNCHANGED <<lang, dob, today, age, metrics_reply, metrics, summary, creative_reply,
                   creative, SMTP_PASSWORD, response>>

\* lines 286-304: the web rendering and the JSON response
Respond ==
    /\ pc = "respond"
    /\ response' = Report
    /\ events' = Append(events, "response")
    /\ pc' = "done"
    /\ UNCHANGED <<lang, dob, today, age, metrics_reply, metrics, summary, creative_reply,
                   creative, SMTP_PASSWORD>>

-----------------------------------------------------------------------------
(* Inputs                                                                  *)

\* what os.getenv("SMTP_PASSWORD") can give: unset, empty, a password
PasswordValues == {PyNone, "", "app-password"}

\* values of the "lang" field
LangValues ==
    {JAbsent, JNull, JNumber, JStr(<<>>),
     JStr(<<"t", "w">>), JStr(<<"T", "W">>), JStr(<<" ", "t", "w", " ">>),
     JStr(<<"e", "n">>), JStr(<<"t", "w", "x">>)}

\* sequences over S of length at most n
RECURSIVE SeqsUpTo(_, _)
SeqsUpTo(S, n) ==
    IF n = 0 THEN {<<>>}
    ELSE LET shorter == SeqsUpTo(S, n - 1) IN
         shorter \cup {Append(q, x) : q \in shorter, x \in S}

\* lines an AI metrics reply is made of: headings (plain, padded, with an empty
\* title, indented, holding a colon), label lines (plain, padded with a percent
\* sign, with a value that is no integer, with an empty value, with a negative
\* value), a line without separator and an empty line
MetricLines ==
    { <<"#", "#", "#", "T">>,
      <<"#", "#", "#", " ", "U", " ">>,
      <<"#", "#", "#">>,
      <<" ", "#", "#", "#", "V">>,
      <<"#", "#", "#", "W", ":", "9">>,
      <<"a", ":", "5">>,
      <<"b", ":", " ", "7", "%">>,
      <<"c", ":", "x">>,
      <<"d", ":">>,
      <<"f", ":", "-", "5">>,
      <<"e">>,
      <<>> }

\* the replies of the metrics completion call
MetricTexts == {Join(ls, "\n") : ls \in SeqsUpTo(MetricLines, MaxLines)}

MetricOutcomes == {Raised, NoneContent} \cup {Text(t) : t \in MetricTexts}

\* a few replies for the runs of the whole handler
FewMetricOutcomes ==
    {Raised, NoneContent,
     Text(<<"#", "#", "#", "T", "\n", "a", ":", "5", "\n", "b", ":", " ", "7", "%">>),
     Text(<<"#", "#", "#", "T", "\n", "c", ":", "x", "\n", "a", ":", "5">>),
     Text(<<"e">>)}

SummaryOutcomes == {Raised, NoneContent, Text(<<"s", " ", " ", "p">>)}

\* runs of whitespace
WsRuns == SeqsUpTo({" ", "\n"}, MaxWs)

\* openings of a suggestions reply: the phrase with either exclamation mark,
\* without one, with another mark, cut short, and after other text
Openings ==
    { <<>>,
      OpeningPhrase \o <<"FW!">>,
      OpeningPhrase \o <<"!">>,
      OpeningPhrase,
      OpeningPhrase \o <<"?">>,
      <<"dang", "ran">>,
      <<"x">> \o OpeningPhrase \o <<"!">> }

Rests == { <<>>, <<"1", ".">>, OpeningPhrase \o <<"!", "x">> }

SuggestionTexts ==
    {a \o o \o b \o r : a \in WsRuns, o \in Openings, b \in WsRuns, r \in Rests}

SuggestionOutcomes == {Raised, NoneContent} \cup {Text(t) : t \in SuggestionTexts}

FewSuggestionOutcomes ==
    {Raised, NoneContent, Text(<<"1", ".">>),
     Text(<<" ">> \o OpeningPhrase \o <<"FW!", "\n", "1", ".">>)}

\* the date-of-birth fields of the body
DobFields(Years, Months, Days) ==
    {<<y, m, d>> : y \in Years, m \in Months, d \in Days}

Dobs ==
    DobFields({JNone, JNum(1990), JNum(2000), JNum(2024)},
              {JNone, JNum(0), JNum(1), JNum(2), JNum(3), JNum(12), JNum(13)},
              {JNone, JNum(0), JNum(1), JNum(28), JNum(29), JNum(30), JNum(31), JNum(32)})

FewDobs == {<<JNum(1990), JNum(1), JNum(1)>>, <<JNone, JNum(1), JNum(1)>>}

Todays ==
    {<<2024, 2, 28>>, <<2024, 2, 29>>, <<2024, 3, 1>>, <<2025, 1, 1>>,
     <<2025, 2, 28>>, <<2025, 12, 31>>}

FewTodays == {<<2025, 2, 28>>}

-----------------------------------------------------------------------------
(* Specifications                                                          *)

\* the process after start-up, before a request
Init ==
    /\ pc = "idle"
    /\ lang = JAbsent
    /\ dob = <<JNone, JNone, JNone>>
    /\ today = <<2025, 1, 1>>
    /\ age = 0
    /\ metrics_reply = NotCalled
    /\ metrics = <<>>
    /\ summary = NotCalled
    /\ creative_reply = NotCalled
    /\ creative = NotCalled
    /\ SMTP_PASSWORD \in PasswordValues
    /\ events = <<>>
    /\ response = NoResponse

Next ==
    \/ Receive(LangValues, FewDobs, FewTodays)
    \/ MetricsCall(FewMetricOutcomes)
    \/ SummaryCall(SummaryOutcomes)
    \/ SuggestionsCall(FewSuggestionOutcomes)
    \/ MailDispatch
    \/ Respond

\* one request through the whole handler
Spec == Init /\ [][Next]_vars

\* compute_age over the date-of-birth fields and the current date
NextAge == Receive({JAbsent, JStr(SupportedLang)}, Dobs, Todays)

AgeSpec == Init /\ [][NextAge]_vars

\* an accepted request about to call generate_metrics_with_ai
InitParser ==
    /\ pc = "metrics"
    /\ lang = JAbsent
    /\ dob = <<JNum(1990), JNum(1), JNum(1)>>
    /\ today = <<2025, 2, 28>>
    /\ age = 35
    /\ metrics_reply = NotCalled
    /\ metrics = <<>>
    /\ summary = NotCalled
    /\ creative_reply = NotCalled
    /\ creative = NotCalled
    /\ SMTP_PASSWORD = "app-password"
    /\ events = <<>>
    /\ response = NoResponse

\* generate_metrics_with_ai over the replies of its completion call
NextParser == MetricsCall(MetricOutcomes)

ParserSpec == InitParser /\ [][NextParser]_vars

\* an accepted request about to ask for the suggestions
InitStrip ==
    /\ pc = "suggestions"
    /\ lang = JAbsent
    /\ dob = <<JNum(1990), JNum(1), JNum(1)>>
    /\ today = <<2025, 2, 28>>
    /\ age = 35
    /\ metrics_reply = Raised
    /\ metrics = DefaultMetrics
    /\ summary = Text(FallbackText)
    /\ creative_reply = NotCalled
    /\ creative = NotCalled
    /\ SMTP_PASSWORD = "app-password"
    /\ events = <<"metrics_call", "summary_call">>
    /\ response = NoResponse

\* the suggestions call and re.sub over the replies
NextStrip == SuggestionsCall(SuggestionOutcomes)

StripSpec == InitStrip /\ [][NextStrip]_vars

-----------------------------------------------------------------------------
(* Properties                                                              *)

\* generate_metrics_with_ai has returned
MetricsDone == metrics_reply.kind # "notcalled"

\* the lines the parser scanned
ScannedLines == ReplyLines(metrics_reply.chars)

IsHeading(line) == StartsWith(line, HeadingMarker)

\* the title a heading line gives
TitleOf(line) == Strip(Remove(line, HeadingMarker))

\* a non-heading line with the separator
IsPair(line) == ~IsHeading(line) /\ Contains(line, ":")

\* the value segment of a pair line, percent signs off
ValueSegment(line) == Remove(Strip(SplitFirst(line, ":")[2]), <<"%">>)

\* a pair line whose value segment is no integer
Malformed(line) == IsPair(line) /\ ~IsInt(ValueSegment(line))

NotMalformed(line) == ~Malformed(line)

\* the k-th smallest element of a set of numbers
Nth(S, k) == CHOOSE x \in S : Cardinality({y \in S : y < x}) = k - 1

\* the elements of a set of numbers in increasing order
Sorted(S) == [k \in 1..Cardinality(S) |-> Nth(S, k)]

HeadingIdx(lines) == {i \in 1..Len(lines) : IsHeading(lines[i])}

TitledIdx(lines) == {i \in HeadingIdx(lines) : TitleOf(lines[i]) # <<>>}

\* the last line of the block heading i opens
BlockEnd(lines, i) ==
    LET later == {j \in HeadingIdx(lines) : j > i} IN
    IF later = {} THEN Len(lines) ELSE Nth(later, 1) - 1

\* the pair lines between heading i and the next heading
BlockPairs(lines, i) == Sorted({j \in (i + 1)..BlockEnd(lines, i) : IsPair(lines[j])})

\* one group per titled heading, in input order, with the pair lines of its block
ExpectedGroups(lines) ==
    LET hs == Sorted(TitledIdx(lines)) IN
    [k \in 1..Len(hs) |->
        LET ps == BlockPairs(lines, hs[k]) IN
        [title  |-> TitleOf(lines[hs[k]]),
         labels |-> [n \in 1..Len(ps) |-> Strip(SplitFirst(lines[ps[n]], ":")[1])],
         values |-> [n \in 1..Len(ps) |-> ToInt(ValueSegment(lines[ps[n]]))]]]

\* C1: every metric group the parser returns has as many labels as values,
\* whatever the reply text.
C1_LabelsValuesSameLength ==
    MetricsDone =>
        \A i \in 1..Len(metrics) : Len(metrics[i].labels) = Len(metrics[i].values)

\* C2: a pair line whose value segment is no integer is dropped whole: the
\* result is the result of the same lines with every such line removed.
C2_MalformedLineDropped ==
    (MetricsDone /\ metrics_reply.kind = "text") =>
        metrics = OrDefault(Flush(ScanLines(ScanInit, SelectSeq(ScannedLines, NotMalformed))))

\* C3: the metrics result is never empty: it is the fixed default group when
\* the call failed or the reply has no heading with a non-empty title, and
\* otherwise it is the parsed groups, one per titled heading, in order.
C3_NeverEmptyDefaultOrParsed ==
    MetricsDone =>
        /\ metrics # <<>>
        /\ IF metrics_reply.kind = "text" /\ TitledIdx(ScannedLines) # {}
           THEN LET hs == Sorted(TitledIdx(ScannedLines)) IN
                /\ Len(metrics) = Len(hs)
                /\ \A k \in 1..Len(hs) : metrics[k].title = TitleOf(ScannedLines[hs[k]])
           ELSE /\ Len(metrics) = 1
                /\ metrics[1].title = <<"yu", "she", "zhi", "biao">>
                /\ metrics[1].labels = << <<"zhi", "biao", "A">>, <<"zhi", "biao", "B">> >>
                /\ metrics[1].values = <<50, 75>>

\* C3 witness: a reply with a heading line, all of them with an empty title,
\* and label lines; the default group came back.
C3_Witness ==
    /\ MetricsDone /\ metrics_reply.kind = "text"
    /\ HeadingIdx(ScannedLines) # {} /\ TitledIdx(ScannedLines) = {}
    /\ \E i \in 1..Len(ScannedLines) : IsPair(ScannedLines[i])
    /\ metrics = DefaultMetrics

\* C4: when every pair line has an integer value, the result is one group per
\* heading with a non-empty title, in input order, titled by the heading text
\* without the marker and holding exactly the pair lines between that heading
\* and the next one (pair lines before the first heading belong to no group);
\* with no such heading the result is the default group of C3.
C4_OneGroupPerHeading ==
    (MetricsDone /\ metrics_reply.kind = "text"
        /\ \A i \in 1..Len(ScannedLines) : ~Malformed(ScannedLines[i])) =>
        LET expected == ExpectedGroups(ScannedLines) IN
        /\ Len(metrics) = (IF Len(expected) = 0 THEN 1 ELSE Len(expected))
        /\ Len(expected) > 0 =>
              \A k \in 1..Len(expected) :
                 /\ metrics[k].title = expected[k].title
                 /\ Len(metrics[k].labels) = Len(expected[k].labels)
                 /\ Len(metrics[k].values) = Len(expected[k].values)
                 /\ \A n \in 1..Len(expected[k].labels) :
                       /\ metrics[k].labels[n] = expected[k].labels[n]
                       /\ metrics[k].values[n] = expected[k].values[n]
        /\ Len(expected) = 0 => metrics = DefaultMetrics

\* C4 witness: two titled headings, the first with one pair line, the
\* second with none.
C4_Witness ==
    /\ MetricsDone /\ metrics_reply.kind = "text"
    /\ \A i \in 1..Len(ScannedLines) : ~Malformed(ScannedLines[i])
    /\ Len(metrics) = 2
    /\ Len(metrics[1].labels) = 1 /\ Len(metrics[1].values) = 1
    /\ Len(metrics[2].labels) = 0

-----------------------------------------------------------------------------

\* the request has passed the locale check
Accepted == pc \in {"metrics", "summary", "suggestions", "mail", "respond"}
            \/ (pc = "done" /\ Len(events) > 0 /\ events[1] = "metrics_call")

\* the request has been answered without entering the pipeline
AnsweredAtCheck == pc = "done" /\ events = <<"response">>

C6_AcceptedAlways200 ==
    (pc = "done" /\ Accepted) => response.status = 200

IsSmtpStep(e) == e \in {"smtp_connect", "smtp_starttls", "smtp_login", "smtp_sendmail"}

\* send_email_report has been called
MailCalled == \E i \in 1..Len(events) : events[i] = "mail_dispatch"

\* C7: with the server host, the username or the password empty or missing,
\* send_email_report returns to the handler without raising and without any
\* transport step (connect, STARTTLS, login, send).
C7_NoConfigNoTransport ==
    (MailCalled /\ (SMTP_SERVER \in {"", PyNone} \/ SMTP_USERNAME \in {"", PyNone}
                        \/ SMTP_PASSWORD \in {"", PyNone})) =>
        /\ \A i \in 1..Len(events) : ~IsSmtpStep(events[i])
        /\ \E i \in 1..Len(events) : events[i] = "mail_return"
        /\ pc \in {"respond", "done"}
        /\ pc = "done" => response = Report

\* C7 witness: a request answered 200 with the password unset and the mail
\* dispatcher called.
C7_Witness ==
    pc = "done" /\ MailCalled /\ SMTP_PASSWORD = PyNone /\ response = Report

\* re.sub has run on the suggestions reply
Stripped == creative.kind = "text" /\ creative_reply.kind = "text"

\* the reply begins with the phrase and one of the two exclamation marks
BeginsWithPhrase(s) ==
    StartsWith(s, OpeningPhrase \o <<"FW!">>) \/ StartsWith(s, OpeningPhrase \o <<"!">>)

\* C8 as stated: a reply that begins with the exact phrase loses that prefix,
\* and any other reply is passed on unchanged.
C8_ExactPrefixOnly ==
    Stripped =>
        IF BeginsWithPhrase(creative_reply.chars)
        THEN creative.chars = SubSeq(creative_reply.chars, Len(OpeningPhrase) + 2,
                                     Len(creative_reply.chars))
        ELSE creative.chars = creative_reply.chars

AllSpace(s) == \A i \in 1..Len(s) : IsSpace(s[i])

\* C8 amended: a reply made of optional whitespace, the phrase and one of the
\* two exclamation marks loses that whitespace, the phrase, the mark and all
\* whitespace that follows the mark; any other reply is passed on unchanged.
C8_OpeningAndWhitespaceStripped ==
    Stripped =>
        LET r == creative_reply.chars
            n == Len(OpeningPhrase)
            starts == {a \in 0..Len(r) :
                          /\ AllSpace(SubSeq(r, 1, a))
                          /\ a + n + 1 <= Len(r)
                          /\ SubSeq(r, a + 1, a + n) = OpeningPhrase
                          /\ r[a + n + 1] \in {"FW!", "!"}}
        IN  IF starts = {} THEN creative.chars = r
            ELSE \E a \in starts : \E b \in (a + n + 1)..Len(r) :
                    /\ AllSpace(SubSeq(r, a + n + 2, b))
                    /\ creative.chars = SubSeq(r, b + 1, Len(r))
                    /\ (creative.chars = <<>> \/ ~IsSpace(creative.chars[1]))

\* C8 witness: whitespace before the phrase and after the mark, text after it.
C8_Witness ==
    /\ Stripped
    /\ creative_reply.chars = <<" ">> \o OpeningPhrase \o <<"FW!", "\n", "1", ".">>
    /\ creative.chars = <<"1", ".">>

\* the date-of-birth fields are numbers that make a calendar date
ValidDob ==
    /\ \A i \in 1..3 : dob[i].kind = "number"
    /\ dob[1].n \in 1..9999
    /\ dob[2].n \in 1..12
    /\ dob[3].n \in 1..DaysIn(dob[1].n, dob[2].n)

\* C9: for a valid date of birth the age is the current year minus the birth
\* year, less one exactly when today's (month, day) comes before the birth
\* (month, day); for fields that make no date the age is 0.
C9_Age ==
    (pc = "metrics") =>
        IF ValidDob
        THEN age = today[1] - dob[1].n
                   - (IF today[2] * 100 + today[3] < dob[2].n * 100 + dob[3].n THEN 1 ELSE 0)
        ELSE age = 0

\* C9 witness: the birthday is later in the current month, so one year is
\* taken off.
C9_Witness ==
    /\ pc = "metrics" /\ ValidDob
    /\ today[2] = dob[2].n /\ today[3] < dob[3].n
    /\ age = today[1] - dob[1].n - 1

\* the events of the request without the transport steps inside the mail
\* dispatcher
NotSmtpStep(e) == ~IsSmtpStep(e)

Steps == SelectSeq(events, NotSmtpStep)

\* C10: an accepted request performs metrics call, summary call, suggestions
\* call, mail dispatch and response, each once and in this order; a rejected
\* request performs no call and no mail dispatch.
C10_StrictOrder ==
    pc = "done" =>
        IF Accepted
        THEN Steps = <<"metrics_call", "summary_call", "suggestions_call",
                       "mail_dispatch", "mail_return", "response">>
        ELSE Steps = <<"response">>

====
